---- MODULE Spec2Model ----
(***************************************************************************)
(* Model of the GIMini plugin pipeline of OpScaleHub/deepSight:            *)
(* run -> createDialog -> runPluginLogic -> getLayerAsPNG /                *)
(* createLayerFromBytes, with the host document, the persistent parasite,  *)
(* the debug log and the host's message surface as state.                  *)
(*                                                                         *)
(* Strings are sequences of tokens (single characters for user input,      *)
(* whole literals for the program's format strings), so that               *)
(* concatenation and containment are computed rather than assumed.         *)
(* Pixel data is a run-length sequence <<n, px>>: n consecutive pixels     *)
(* with byte tuple px; every per-pixel loop of the source is a map over    *)
(* the runs.                                                               *)
(***************************************************************************)
EXTENDS Integers, Sequences, FiniteSets, TLC

\* ------------------------------------------------------------------ bounds
MaxRuns == 2

\* --------------------------------------------------------------- constants
MODE_TEXT_TO_IMAGE == 0
MODE_IMAGE_TO_IMAGE == 1
DummyWidth == 512
DummyHeight == 512

GIMP_PDB_SUCCESS == "GIMP_PDB_SUCCESS"
GIMP_PDB_CANCEL == "GIMP_PDB_CANCEL"
GIMP_PDB_EXECUTION_ERROR == "GIMP_PDB_EXECUTION_ERROR"
GTK_RESPONSE_OK == "GTK_RESPONSE_OK"
GTK_RESPONSE_CANCEL == "GTK_RESPONSE_CANCEL"

\* Go's nil (error, pointer, slice): the empty sequence; a present value x
\* is the one-element sequence Some(x), an error its non-empty text
Nil == <<>>
Some(x) == <<x>>
\* d_status before run has written it
Unset == "unset"

\* ----------------------------------------------------------------- strings
\* a literal of the source as a one-token string
Lit(t) == <<t>>

\* strings.Contains on token strings
Contains(s, sub) ==
  \E i \in 0..(Len(s) - Len(sub)) :
    \A j \in 1..Len(sub) : s[i + j] = sub[j]

\* fmt.Errorf("<prefix>: %w", err): the wrapped error's text follows
Wrap(prefix, e) == Lit(prefix) \o e

\* ------------------------------------------------------------------ pixels
RECURSIVE NumPixels(_)
NumPixels(runs) ==
  IF runs = <<>> THEN 0 ELSE runs[1][1] + NumPixels(Tail(runs))

\* len() of the byte slice holding runs of bpp-byte pixels
ByteLen(runs, bpp) == NumPixels(runs) * bpp

\* image.RGBA / image.NRGBA At(x,y).RGBA(): 16-bit alpha-premultiplied;
\* color.NRGBA.RGBA computes r |= r << 8; r *= a; r /= 0xff
ColorRGBA(kind, px) ==
  IF kind = "RGBA"
  THEN <<px[1] * 257, px[2] * 257, px[3] * 257, px[4] * 257>>
  ELSE <<(px[1] * 257 * px[4]) \div 255,
         (px[2] * 257 * px[4]) \div 255,
         (px[3] * 257 * px[4]) \div 255,
         px[4] * 257>>

\* (c * 0xffff) / a in uint32, computed in two steps (0xffff = 255 * 257)
\* so that no intermediate product exceeds 31 bits
Unpremultiply(c, a) ==
  LET t == c * 255
  IN (t \div a) * 257 + (((t % a) * 257) \div a)

\* color.NRGBAModel.Convert, which png.Encode applies to every pixel of a
\* non-opaque image.RGBA; uint8() keeps the low byte
NRGBAModelConvert(c) ==
  IF c[4] = 65535 THEN <<c[1] \div 256, c[2] \div 256, c[3] \div 256, 255>>
  ELSE IF c[4] = 0 THEN <<0, 0, 0, 0>>
  ELSE <<(Unpremultiply(c[1], c[4]) \div 256) % 256,
         (Unpremultiply(c[2], c[4]) \div 256) % 256,
         (Unpremultiply(c[3], c[4]) \div 256) % 256,
         c[4] \div 256>>

Opaque(img) == \A i \in DOMAIN img.pix : img.pix[i][2][4] = 255

\* png.Encode: an opaque image is stored as 8-bit truecolour, any other as
\* 8-bit truecolour with straight alpha
PNGEncode(img) ==
  [format |-> "png", width |-> img.width, height |-> img.height,
   cb |-> IF Opaque(img) THEN "TC8" ELSE "TCA8",
   data |->
     [i \in DOMAIN img.pix |->
        <<img.pix[i][1],
          IF Opaque(img)
          THEN <<img.pix[i][2][1], img.pix[i][2][2], img.pix[i][2][3]>>
          ELSE IF img.kind = "NRGBA" THEN img.pix[i][2]
          ELSE NRGBAModelConvert(ColorRGBA("RGBA", img.pix[i][2]))>>]]

\* image.Decode on PNG bytes: truecolour decodes to image.RGBA with alpha
\* 255, truecolour-alpha to image.NRGBA
DecodedImage(data) ==
       [kind |-> IF data.cb = "TC8" THEN "RGBA" ELSE "NRGBA",
        width |-> data.width, height |-> data.height,
        pix |->
          [i \in DOMAIN data.data |->
             <<data.data[i][1],
               IF data.cb = "TC8"
               THEN <<data.data[i][2][1], data.data[i][2][2],
                      data.data[i][2][3], 255>>
               ELSE data.data[i][2]>>]]

\* image.Decode: [img, err]; only the registered format (png) decodes
PNGDecode(data) ==
  IF data.format # "png"
  THEN [img |-> Nil, err |-> Lit("image: unknown format")]
  ELSE [img |-> Some(DecodedImage(data)), err |-> Nil]

\* createDummyImage: the PNG of a zeroed 512x512 image.RGBA
createDummyImage ==
  PNGEncode([kind |-> "RGBA", width |-> DummyWidth, height |-> DummyHeight,
             pix |-> << <<DummyWidth * DummyHeight, <<0, 0, 0, 0>> >> >>])

\* the conversion loop of createLayerFromBytes: byte(c >> 8) per channel
ConvertPixels(img) ==
  [i \in DOMAIN img.pix |->
     <<img.pix[i][1],
       LET c == ColorRGBA(img.kind, img.pix[i][2])
       IN <<(c[1] \div 256) % 256, (c[2] \div 256) % 256,
            (c[3] \div 256) % 256, (c[4] \div 256) % 256>> >>]

\* ------------------------------------------------------------ getLayerName
\* unicode.IsSpace on the characters a prompt can hold
WhiteSpace == {" ", "\t", "\n"}

\* strings.Fields: maximal runs of non-space characters
RECURSIVE Fields(_, _, _)
Fields(s, cur, acc) ==
  IF s = <<>> THEN (IF cur = <<>> THEN acc ELSE Append(acc, cur))
  ELSE IF Head(s) \in WhiteSpace
       THEN Fields(Tail(s), <<>>, IF cur = <<>> THEN acc ELSE Append(acc, cur))
       ELSE Fields(Tail(s), Append(cur, Head(s)), acc)

\* strings.Join(words, " ")
RECURSIVE Join(_)
Join(words) ==
  IF words = <<>> THEN <<>>
  ELSE IF Len(words) = 1 THEN words[1]
  ELSE words[1] \o <<" ">> \o Join(Tail(words))

\* mutant: the word limit is off by one
getLayerName_SixWords(prompt) ==
  LET words == Fields(prompt, <<>>, <<>>)
      maxWords == IF Len(words) < 6 THEN Len(words) ELSE 6
      shortPrompt == Join(SubSeq(words, 1, maxWords))
  IN Lit("Gemini Gen: ") \o shortPrompt \o Lit("...")

getLayerName(prompt) ==
  LET words == Fields(prompt, <<>>, <<>>)
      maxWords == IF Len(words) < 5 THEN Len(words) ELSE 5
      shortPrompt == Join(SubSeq(words, 1, maxWords))
  IN Lit("Gemini Gen: ") \o shortPrompt \o Lit("...")

\* ------------------------------------------------------------ input spaces
\* what the user can type into the API key entry and the prompt view
Keys == {<<>>, <<"k", "1">>, <<"k", "2">>}
Prompts == {<<>>, <<"c", "a", "t">>, <<"a", " ", "b">>}
Modes == {MODE_TEXT_TO_IMAGE, MODE_IMAGE_TO_IMAGE}

\* documents the host can hand to the plugin ("RGB*, GRAY*"): an RGB image
\* with an RGBA and an RGB layer, and a GRAY image with one 1-byte layer
RGBDocument ==
  << [id |-> 1, name |-> Lit("Background"), width |-> 2, height |-> 1,
      bpp |-> 4, merged |-> TRUE,
      pix |-> << <<1, <<200, 100, 50, 128>> >>, <<1, <<10, 20, 30, 255>> >> >>],
     [id |-> 2, name |-> Lit("Photo"), width |-> 1, height |-> 1,
      bpp |-> 3, merged |-> TRUE,
      pix |-> << <<1, <<10, 20, 30>> >> >>] >>
GrayDocument ==
  << [id |-> 1, name |-> Lit("Background"), width |-> 1, height |-> 1,
      bpp |-> 1, merged |-> TRUE,
      pix |-> << <<1, <<77>> >> >>] >>
Documents == {RGBDocument, GrayDocument}

\* error texts genai.NewClient / GenerateContent can return for a client
\* configured with key: a status text, or a transport error quoting the
\* request URL, which carries the key as a query parameter
ServiceErrors(key) ==
  { Lit("rpc error: code = Unavailable"),
    Lit("Post https://generativelanguage.googleapis.com/?key=") \o key
      \o Lit(": dial tcp: connection refused") }

\* an image the service can return: 1x1 opaque red
ServiceImage ==
  PNGEncode([kind |-> "NRGBA", width |-> 1, height |-> 1,
             pix |-> << <<1, <<255, 0, 0, 255>> >> >>])

\* another image the service can return: 512x512, opaque, one colour
ServiceImage512 ==
  PNGEncode([kind |-> "NRGBA", width |-> 512, height |-> 512,
             pix |-> << <<512 * 512, <<0, 128, 255, 255>> >> >>])

\* genai.GenerateContentResponse values: no candidates, a candidate with no
\* parts, a text part, an image blob part (1x1 and 512x512)
Responses ==
  { [Candidates |-> <<>>],
    [Candidates |-> << [Parts |-> <<>>] >>],
    [Candidates |-> << [Parts |-> << [type |-> "Text", text |-> Lit("a cat")] >>] >>],
    [Candidates |-> << [Parts |-> << [type |-> "Blob", mime |-> "png",
                                      data |-> ServiceImage] >>] >>],
    [Candidates |-> << [Parts |-> << [type |-> "Blob", mime |-> "png",
                                      data |-> ServiceImage512] >>] >>] }

\* -------------------------------------------------------------------- state
VARIABLES
  pc,          \* position of the invocation inside run / runPluginLogic
  param,       \* the GimpParam handed to run: d_image, d_drawable
  pluginVals,  \* the global pluginVals record
  d_status,    \* (*return_vals).data.d_status
  locals,      \* locals of run, runPluginLogic and createLayerFromBytes
  parasite,    \* the persistent "gimini-api-key" parasite, Nil when absent
  layers,      \* the layers of the host document, bottom to top
  messages,    \* texts passed to gimp_message, in order
  logLines,    \* lines written to gimini-debug.log, in order
  requests,    \* GenerateContent calls issued by the current invocation
  trace,       \* per-invocation history: which calls happened
  unit,        \* a single function applied on its own: input and result
  server,      \* the dashboard's Server: reqTotal, mu, buckets, idx
  rotator,     \* position of the rotateLoop goroutine
  handler,     \* the goroutines serving requests: position and locals
  clock        \* number of rotations rotateLoop has carried out

\* the state of the plugin pipeline
pipeline == <<pc, param, pluginVals, d_status, locals, parasite, layers,
              messages, logLines, requests, trace>>

\* the state of the dashboard server (src/main.go)
dashboard == <<server, rotator, handler, clock>>

\* the state outside the plugin pipeline
others == <<unit, dashboard>>

vars == <<pipeline, others>>

\* no function is being applied on its own
NoUnit == [fn |-> ""]

NoLocals ==
  [status |-> GIMP_PDB_SUCCESS, err |-> Nil, client |-> Nil, resp |-> Nil,
   inputImageBytes |-> Nil, generatedImageBytes |-> Nil, img |-> Nil,
   newLayerID |-> 0]

NoTrace ==
  [runs |-> 0, layersBefore |-> <<>>, response |-> "", statusWrites |-> 0,
   logic |-> FALSE, saves |-> 0, clients |-> 0, reads |-> 0, inserted |-> 0,
   messages |-> 0, failedAt |-> "", writeOK |-> "", prefill |-> <<>>,
   entered |-> <<>>, prev |-> <<>>]

\* the plugin as loaded, before any invocation, on document doc
PipelineIdle(doc) ==
  /\ pc = "idle"
  /\ param = [d_image |-> 0, d_drawable |-> 0]
  /\ pluginVals = [promptText |-> <<>>, apiKey |-> <<>>,
                   mode |-> MODE_TEXT_TO_IMAGE, run |-> FALSE,
                   imageID |-> 0, drawableID |-> 0]
  /\ d_status = Unset
  /\ locals = NoLocals
  /\ parasite = Nil
  /\ layers = doc
  /\ messages = <<>>
  /\ logLines = <<>>
  /\ requests = <<>>
  /\ trace = NoTrace

\* len(s.buckets), src/main.go line 35
Window == 60

\* the requests in flight, named by the handler that serves them: one
\* GET /health and one GET /metrics, each in its own goroutine
Handlers == {"healthHandler", "metricsHandler"}

\* NewServer, src/main.go lines 39-43: the zero Server with rotateLoop
\* started, and the two requests accepted but not yet handled
ServerIdle ==
  /\ server = [reqTotal |-> 0, mu |-> "", idx |-> 0,
               buckets |-> [i \in 0..(Window - 1) |-> 0]]
  /\ rotator = "Lock"
  /\ handler = [h \in Handlers |->
                  [pc |-> "recordRequest", at |-> -1, total |-> 0, rpm |-> 0]]
  /\ clock = 0

Init ==
  /\ unit = NoUnit
  /\ \E doc \in Documents : PipelineIdle(doc)
  /\ ServerIdle

\* ------------------------------------------------------------------ helpers
loadAPIKey == IF parasite = Nil THEN <<>> ELSE parasite[1]

\* the layer the host resolves a drawable ID to
Drawable(id) == layers[id]

\* gimp_pixel_rgn_get_rect: the layer's buffer; a layer whose shadow was
\* never merged reads as zero bytes
LayerPixels(l) ==
  IF l.merged THEN l.pix
  ELSE << <<l.width * l.height, [k \in 1..l.bpp |-> 0]>> >>

\* the byte slice gimp_pixel_rgn_get_rect fills, lines 458-463: the
\* pixels' bytes in row order
RECURSIVE RawBytes(_)
RawBytes(runs) ==
  IF runs = <<>> THEN <<>>
  ELSE IF runs[1][1] = 0 THEN RawBytes(Tail(runs))
  ELSE runs[1][2]
         \o RawBytes(<< <<runs[1][1] - 1, runs[1][2]>> >> \o Tail(runs))

\* mutant: the alpha byte is left as make() zeroed it
ExpandRGB_NoAlpha(pixels, width, height) ==
  LET stride == width * 3
  IN [j \in 1..(width * height * 4) |->
        LET y == (j - 1) \div (width * 4)
            x == ((j - 1) % (width * 4)) \div 4
            k == (j - 1) % 4
            srcOff == y * stride + x * 3
        IN IF k = 3 THEN 0 ELSE pixels[srcOff + k + 1]]

\* the copy loop of getLayerAsPNG, lines 476-489: the Pix of the NRGBA
\* image; byte j of Pix lies at dstOff + k for the pixel (x, y) with
\* dstOff = y*Stride + x*4, and is pixels[srcOff + k] or, for k = 3, 255
ExpandRGB(pixels, width, height) ==
  LET stride == width * 3
  IN [j \in 1..(width * height * 4) |->
        LET y == (j - 1) \div (width * 4)
            x == ((j - 1) % (width * 4)) \div 4
            k == (j - 1) % 4
            srcOff == y * stride + x * 3
        IN IF k = 3 THEN 255 ELSE pixels[srcOff + k + 1]]

\* the pixels of an image whose Pix holds 4 bytes per pixel
PixelsOf(Pix) ==
  [p \in 1..(Len(Pix) \div 4) |->
     <<1, <<Pix[4 * p - 3], Pix[4 * p - 2], Pix[4 * p - 1], Pix[4 * p]>> >>]

\* gint printed with %d
Num(n) == <<ToString(n)>>

\* mutant: any other layout is read as one grey byte per pixel
getLayerAsPNG_GreyAsRGB(drawableID, rgnOK) ==
  LET d == Drawable(drawableID)
      pixels == LayerPixels(d)
  IN IF ~rgnOK
     THEN [bytes |-> Nil,
           err |-> Lit("failed to create pixel region for drawable ")
                     \o Num(drawableID)]
     ELSE IF d.bpp = 4
     THEN [bytes |-> Some(PNGEncode([kind |-> "RGBA", width |-> d.width,
                                     height |-> d.height,
                                     pix |-> pixels])),
           err |-> Nil]
     ELSE IF d.bpp = 3
     THEN [bytes |->
             Some(PNGEncode([kind |-> "NRGBA", width |-> d.width,
                             height |-> d.height,
                             pix |-> PixelsOf(ExpandRGB(RawBytes(pixels),
                                                        d.width, d.height))])),
           err |-> Nil]
     ELSE [bytes |->
             Some(PNGEncode([kind |-> "NRGBA", width |-> d.width,
                             height |-> d.height,
                             pix |-> [i \in DOMAIN pixels |->
                                        <<pixels[i][1],
                                          <<pixels[i][2][1], pixels[i][2][1],
                                            pixels[i][2][1], 255>> >>]])),
           err |-> Nil]

\* getLayerAsPNG: [bytes, err]; rgnOK is whether gimp_pixel_rgn_new
\* returned a region
getLayerAsPNG(drawableID, rgnOK) ==
  LET d == Drawable(drawableID)
      pixels == LayerPixels(d)
  IN IF ~rgnOK
     THEN [bytes |-> Nil,
           err |-> Lit("failed to create pixel region for drawable ")
                     \o Num(drawableID)]
     ELSE IF d.bpp = 4
     THEN [bytes |-> Some(PNGEncode([kind |-> "RGBA", width |-> d.width,
                                     height |-> d.height,
                                     pix |-> pixels])),
           err |-> Nil]
     ELSE IF d.bpp = 3
     THEN [bytes |->
             Some(PNGEncode([kind |-> "NRGBA", width |-> d.width,
                             height |-> d.height,
                             pix |-> PixelsOf(ExpandRGB(RawBytes(pixels),
                                                        d.width, d.height))])),
           err |-> Nil]
     ELSE [bytes |-> Nil,
           err |-> Lit("unsupported bytes-per-pixel: ") \o Num(d.bpp)]

\* mutant: the API key check is missing
ValidationError_NoKeyCheck(vals) ==
  IF vals.promptText = <<>> THEN Lit("prompt cannot be empty") ELSE Nil

\* lines 295-300 of runPluginLogic: the validation error, Nil when valid
ValidationError(vals) ==
  IF vals.promptText = <<>> THEN Lit("prompt cannot be empty")
  ELSE IF vals.apiKey = <<>> THEN Lit("API key cannot be empty")
  ELSE Nil

\* mutant: createDialog reports OK whatever the response
DialogReturn_AlwaysTrue(vals) == TRUE

\* createDialog's return value
DialogReturn(vals) == vals.run

\* mutant: the status is never changed from its initial value
StatusOf_AlwaysSuccess(err) == GIMP_PDB_SUCCESS

\* the status run derives from runPluginLogic's error
StatusOf(err) ==
  IF err # Nil THEN GIMP_PDB_EXECUTION_ERROR ELSE GIMP_PDB_SUCCESS

\* the text run hands to gimp_message
ErrorMsg(err) == Lit("GIMini Error: ") \o err

\* genai.Text / genai.ImageData parts of a request
Text(t) == [type |-> "Text", text |-> t]
ImageData(format, data) ==
  [type |-> "Blob", mime |-> format, data |-> data]

\* runPluginLogic returns err to run
ReturnErr(stage, e) ==
  /\ locals' = [locals EXCEPT !.err = e]
  /\ trace' = [trace EXCEPT !.failedAt = stage,
                            !.logic = TRUE,
                            !.clients = IF stage = "client" THEN @ + 1 ELSE @,
                            !.reads = IF stage = "capture" THEN @ + 1 ELSE @]
  /\ pc' = "return"

\* ------------------------------------------------------------------ actions
\* what an invocation that has ended leaves for the record of the next:
\* the stage it failed at, its number of saveAPIKey calls, the key it took
\* from the dialog
Ended ==
  IF trace.runs = 0 THEN Nil
  ELSE Some([failedAt |-> trace.failedAt, saves |-> trace.saves,
             key |-> IF trace.entered = Nil THEN <<>>
                     ELSE trace.entered[1].apiKey])

\* mutant: run does not copy the IDs of its parameters into pluginVals
RunStart_StaleIDs ==
  /\ pc \in {"idle", "done"}
  /\ trace.runs < MaxRuns
  /\ \E id \in 1..Len(layers) :
       /\ param' = [d_image |-> 1, d_drawable |-> id]
       /\ pluginVals' = IF trace.runs = 0
                        THEN [pluginVals EXCEPT !.imageID = 1, !.drawableID = id]
                        ELSE pluginVals
  /\ d_status' = Unset
  /\ locals' = NoLocals
  /\ requests' = <<>>
  /\ trace' = [NoTrace EXCEPT !.runs = trace.runs + 1,
                              !.layersBefore = layers,
                              !.prev = Ended]
  /\ pc' = "createDialog"
  /\ UNCHANGED <<others, parasite, layers, messages, logLines>>

\* run, lines 175-186: a new invocation for the active drawable
RunStart ==
  /\ pc \in {"idle", "done"}
  /\ trace.runs < MaxRuns
  /\ \E id \in 1..Len(layers) :
       /\ param' = [d_image |-> 1, d_drawable |-> id]
       /\ pluginVals' = [pluginVals EXCEPT !.imageID = 1, !.drawableID = id]
  /\ d_status' = Unset
  /\ locals' = NoLocals
  /\ requests' = <<>>
  /\ trace' = [NoTrace EXCEPT !.runs = trace.runs + 1,
                              !.layersBefore = layers,
                              !.prev = Ended]
  /\ pc' = "createDialog"
  /\ UNCHANGED <<others, parasite, layers, messages, logLines>>

\* createDialog and its caller's branch, lines 189-196 and 217-291
CreateDialog ==
  /\ pc = "createDialog"
  /\ \E response \in {GTK_RESPONSE_OK, GTK_RESPONSE_CANCEL},
        key \in Keys \cup {loadAPIKey}, prompt \in Prompts, mode \in Modes :
       LET reset == [pluginVals EXCEPT !.run = FALSE]
           vals == IF response = GTK_RESPONSE_OK
                   THEN [reset EXCEPT !.run = TRUE, !.apiKey = key,
                                      !.promptText = prompt, !.mode = mode]
                   ELSE reset
       IN /\ pluginVals' = vals
          /\ IF ~DialogReturn(vals)
             THEN /\ locals' = [locals EXCEPT !.status = GIMP_PDB_CANCEL]
                  /\ d_status' = GIMP_PDB_CANCEL
                  /\ trace' = [trace EXCEPT !.response = response,
                                            !.prefill = loadAPIKey,
                                            !.statusWrites = @ + 1]
                  /\ pc' = "done"
             ELSE /\ trace' = [trace EXCEPT
                       !.response = response,
                       !.prefill = loadAPIKey,
                       !.entered = Some([apiKey |-> key, promptText |-> prompt,
                                         mode |-> mode])]
                  /\ pc' = "runPluginLogic"
                  /\ UNCHANGED <<locals, d_status>>
  /\ UNCHANGED <<others, param, parasite, layers, messages, logLines, requests>>

\* mutant: saveAPIKey is called before the two checks
Validate_SaveFirst ==
  /\ pc = "runPluginLogic"
  /\ parasite' = Some(pluginVals.apiKey)
  /\ IF ValidationError(pluginVals) # Nil
     THEN /\ locals' = [locals EXCEPT !.err = ValidationError(pluginVals)]
          /\ trace' = [trace EXCEPT !.failedAt = "validation",
                                    !.logic = TRUE, !.saves = @ + 1]
          /\ pc' = "return"
          /\ UNCHANGED logLines
     ELSE /\ logLines' = Append(logLines,
               Lit("GIMini: Mode=") \o Num(pluginVals.mode)
                 \o Lit(", Prompt='") \o pluginVals.promptText \o Lit("'"))
          /\ trace' = [trace EXCEPT !.logic = TRUE, !.saves = @ + 1]
          /\ pc' = "NewClient"
          /\ UNCHANGED locals
  /\ UNCHANGED <<others, param, pluginVals, d_status, layers, messages, requests>>

\* runPluginLogic, lines 295-305: validation, saveAPIKey, the log line
Validate ==
  /\ pc = "runPluginLogic"
  /\ IF ValidationError(pluginVals) # Nil
     THEN /\ ReturnErr("validation", ValidationError(pluginVals))
          /\ UNCHANGED <<parasite, logLines>>
     ELSE /\ parasite' = Some(pluginVals.apiKey)
          /\ logLines' = Append(logLines,
               Lit("GIMini: Mode=") \o Num(pluginVals.mode)
                 \o Lit(", Prompt='") \o pluginVals.promptText \o Lit("'"))
          /\ trace' = [trace EXCEPT !.logic = TRUE, !.saves = @ + 1]
          /\ pc' = "NewClient"
          /\ UNCHANGED locals
  /\ UNCHANGED <<others, param, pluginVals, d_status, layers, messages, requests>>

\* runPluginLogic, lines 307-312: genai.NewClient
NewClient ==
  /\ pc = "NewClient"
  /\ \E e \in {Nil} \cup ServiceErrors(pluginVals.apiKey) :
       IF e # Nil
       THEN ReturnErr("client", Wrap("failed to create genai client: ", e))
       ELSE /\ locals' = [locals EXCEPT
                            !.client = Some([apiKey |-> pluginVals.apiKey])]
            /\ trace' = [trace EXCEPT !.clients = @ + 1]
            /\ pc' = "switch"
  /\ UNCHANGED <<others, param, pluginVals, d_status, parasite, layers, messages,
                 logLines, requests>>

\* mutant: the layer is created as GIMP_RGB_IMAGE, three bytes per pixel
InsertNewLayer_RGB(ls, name, width, height) ==
  Append(ls, [id |-> Len(ls) + 1, name |-> name, width |-> width,
              height |-> height, bpp |-> 3, merged |-> FALSE, pix |-> <<>>])

\* gimp_layer_new + gimp_image_insert_layer, lines 399-410: the document
\* with a new RGBA layer on top whose buffer has not been written
InsertNewLayer(ls, name, width, height) ==
  Append(ls, [id |-> Len(ls) + 1, name |-> name, width |-> width,
              height |-> height, bpp |-> 4, merged |-> FALSE, pix |-> <<>>])

\* the log line of lines 363-365: the first part of the first candidate
ResponseLog(resp) ==
  IF Len(resp.Candidates) > 0 /\ Len(resp.Candidates[1].Parts) > 0
  THEN << Lit("GIMini: Gemini Response: '")
            \o (IF resp.Candidates[1].Parts[1].type = "Text"
                THEN resp.Candidates[1].Parts[1].text
                ELSE Lit("{png}"))
            \o Lit("'") >>
  ELSE <<>>

\* the request of line 321
TextRequest(prompt) ==
  [model |-> "gemini-pro",
   parts |-> << Text(Lit("A placeholder for an image of: ") \o prompt) >>]

\* mutant: the captured layer is left out of the request
VisionRequest_PromptOnly(inputImageBytes, prompt) ==
  [model |-> "gemini-pro-vision", parts |-> << Text(prompt) >>]

\* the request of lines 347-353
VisionRequest(inputImageBytes, prompt) ==
  [model |-> "gemini-pro-vision",
   parts |-> << ImageData("png", inputImageBytes), Text(prompt) >>]

\* the bytes runPluginLogic hands to createLayerFromBytes after a call
\* that returned resp (lines 328 and 367)
GeneratedImageBytes(resp) == createDummyImage

\* case MODE_TEXT_TO_IMAGE, lines 317-332
TextToImage ==
  /\ requests' = Append(requests, TextRequest(pluginVals.promptText))
  /\ \E e \in {Nil} \cup ServiceErrors(pluginVals.apiKey), resp \in Responses :
       IF e # Nil
       THEN /\ ReturnErr("generate", Wrap("gemini API call failed: ", e))
            /\ UNCHANGED logLines
       ELSE /\ logLines' = Append(logLines,
                 Lit("GIMini: API response received (simulated)."))
            /\ locals' = [locals EXCEPT
                 !.resp = Some(resp),
                 !.generatedImageBytes = Some(GeneratedImageBytes(resp))]
            /\ pc' = "createLayerFromBytes"
            /\ UNCHANGED trace

\* case MODE_IMAGE_TO_IMAGE, lines 334-343: getLayerAsPNG
CaptureInput ==
  /\ \E rgnOK \in BOOLEAN :
       LET r == getLayerAsPNG(pluginVals.drawableID, rgnOK)
           d == Drawable(pluginVals.drawableID)
           started == Append(logLines,
                        Lit("GIMini: Starting Image-to-Image mode."))
       IN IF r.err # Nil
          THEN /\ ReturnErr("capture", Wrap("could not read layer data: ", r.err))
               /\ logLines' = started
          ELSE /\ logLines' = Append(started,
                    Lit("GIMini: Successfully encoded layer (")
                      \o Num(d.width) \o Lit("x") \o Num(d.height) \o Lit(", ")
                      \o Num(d.bpp) \o Lit(" bpp) to PNG."))
               /\ locals' = [locals EXCEPT !.inputImageBytes = r.bytes]
               /\ trace' = [trace EXCEPT !.reads = @ + 1]
               /\ pc' = "GenerateVision"
  /\ UNCHANGED requests

\* default: of the switch, lines 372-373
UnknownMode ==
  /\ ReturnErr("mode", Lit("unknown mode selected"))
  /\ UNCHANGED <<logLines, requests>>

\* mutant: the switch has no case for MODE_IMAGE_TO_IMAGE and no default,
\* so that mode falls out of it with generatedImageBytes still nil
ModeSwitch_ImageUnhandled ==
  /\ pc = "switch"
  /\ CASE pluginVals.mode = MODE_TEXT_TO_IMAGE -> TextToImage
       [] OTHER -> /\ pc' = "createLayerFromBytes"
                   /\ UNCHANGED <<locals, logLines, requests, trace>>
  /\ UNCHANGED <<others, param, pluginVals, d_status, parasite, layers, messages>>

\* the switch of runPluginLogic, line 316
ModeSwitch ==
  /\ pc = "switch"
  /\ CASE pluginVals.mode = MODE_TEXT_TO_IMAGE -> TextToImage
       [] pluginVals.mode = MODE_IMAGE_TO_IMAGE -> CaptureInput
       [] OTHER -> UnknownMode
  /\ UNCHANGED <<others, param, pluginVals, d_status, parasite, layers, messages>>

\* mutant: the output layer is created before the call is made
GenerateVision_LayerFirst ==
  /\ pc = "GenerateVision"
  /\ requests' = Append(requests,
       VisionRequest(locals.inputImageBytes[1], pluginVals.promptText))
  /\ layers' = InsertNewLayer(layers, getLayerName(pluginVals.promptText),
                              DummyWidth, DummyHeight)
  /\ \E e \in {Nil} \cup ServiceErrors(pluginVals.apiKey), resp \in Responses :
       IF e # Nil
       THEN /\ ReturnErr("generate",
                 Wrap("gemini vision API call failed: ", e))
            /\ UNCHANGED logLines
       ELSE /\ logLines' = Append(logLines,
                 Lit("GIMini: Vision API response received."))
                 \o ResponseLog(resp)
            /\ locals' = [locals EXCEPT
                 !.resp = Some(resp),
                 !.generatedImageBytes = Some(GeneratedImageBytes(resp))]
            /\ pc' = "createLayerFromBytes"
            /\ UNCHANGED trace
  /\ UNCHANGED <<others, param, pluginVals, d_status, parasite, messages>>

\* mutant: a failed call is repeated once before the error is returned
GenerateVision_Retry ==
  /\ pc = "GenerateVision"
  /\ requests' = Append(requests,
       VisionRequest(locals.inputImageBytes[1], pluginVals.promptText))
  /\ \E e \in {Nil} \cup ServiceErrors(pluginVals.apiKey), resp \in Responses :
       IF e # Nil /\ requests = <<>>
       THEN UNCHANGED <<pc, locals, trace, logLines>>
       ELSE IF e # Nil
       THEN /\ ReturnErr("generate",
                 Wrap("gemini vision API call failed: ", e))
            /\ UNCHANGED logLines
       ELSE /\ logLines' = Append(logLines,
                 Lit("GIMini: Vision API response received."))
                 \o ResponseLog(resp)
            /\ locals' = [locals EXCEPT
                 !.resp = Some(resp),
                 !.generatedImageBytes = Some(GeneratedImageBytes(resp))]
            /\ pc' = "createLayerFromBytes"
            /\ UNCHANGED trace
  /\ UNCHANGED <<others, param, pluginVals, d_status, parasite, layers, messages>>

\* case MODE_IMAGE_TO_IMAGE, lines 345-370: the vision call
GenerateVision ==
  /\ pc = "GenerateVision"
  /\ requests' = Append(requests,
       VisionRequest(locals.inputImageBytes[1], pluginVals.promptText))
  /\ \E e \in {Nil} \cup ServiceErrors(pluginVals.apiKey), resp \in Responses :
       IF e # Nil
       THEN /\ ReturnErr("generate",
                 Wrap("gemini vision API call failed: ", e))
            /\ UNCHANGED logLines
       ELSE /\ logLines' = Append(logLines,
                 Lit("GIMini: Vision API response received."))
                 \o ResponseLog(resp)
            /\ locals' = [locals EXCEPT
                 !.resp = Some(resp),
                 !.generatedImageBytes = Some(GeneratedImageBytes(resp))]
            /\ pc' = "createLayerFromBytes"
            /\ UNCHANGED trace
  /\ UNCHANGED <<others, param, pluginVals, d_status, parasite, layers, messages>>

\* the tail of runPluginLogic, lines 376-380, and createLayerFromBytes,
\* lines 385-410: decode, new layer, insert
CreateLayer ==
  /\ pc = "createLayerFromBytes"
  /\ IF locals.generatedImageBytes = Nil
     THEN /\ locals' = [locals EXCEPT !.err = Nil]
          /\ pc' = "return"
          /\ UNCHANGED <<layers, trace>>
     ELSE LET d == PNGDecode(locals.generatedImageBytes[1])
          IN IF d.err # Nil
             THEN /\ ReturnErr("decode",
                       Wrap("failed to decode image data from API: ", d.err))
                  /\ UNCHANGED layers
             ELSE /\ layers' = InsertNewLayer(layers,
                       getLayerName(pluginVals.promptText),
                       d.img[1].width, d.img[1].height)
                  /\ locals' = [locals EXCEPT !.img = d.img,
                                              !.newLayerID = Len(layers) + 1]
                  /\ trace' = [trace EXCEPT !.inserted = @ + 1]
                  /\ pc' = "writePixels"
  /\ UNCHANGED <<others, param, pluginVals, d_status, parasite, messages, logLines,
                 requests>>

\* the document after set_rect / flush / merge_shadow / update on layer id;
\* ok is whether the host carried the write and the merge out
WriteLayer(ls, id, pixels, ok) ==
  IF ok THEN [ls EXCEPT ![id].pix = pixels, ![id].merged = TRUE] ELSE ls

\* createLayerFromBytes, lines 412-442: convert, write, commit, return nil
WritePixels ==
  /\ pc = "writePixels"
  /\ \E ok \in BOOLEAN :
       /\ layers' = WriteLayer(layers, locals.newLayerID,
                               ConvertPixels(locals.img[1]), ok)
       /\ trace' = [trace EXCEPT !.writeOK = IF ok THEN "ok" ELSE "failed"]
  /\ locals' = [locals EXCEPT !.err = Nil]
  /\ pc' = "return"
  /\ UNCHANGED <<others, param, pluginVals, d_status, parasite, messages, logLines,
                 requests>>

\* run, lines 199-212: status, gimp_message, the status write
RunReturn ==
  /\ pc = "return"
  /\ locals' = [locals EXCEPT !.status = StatusOf(locals.err),
                              !.client = Nil]
  /\ IF locals.err # Nil
     THEN /\ messages' = Append(messages, ErrorMsg(locals.err))
          /\ trace' = [trace EXCEPT !.messages = @ + 1,
                                    !.statusWrites = @ + 1]
     ELSE /\ UNCHANGED messages
          /\ trace' = [trace EXCEPT !.statusWrites = @ + 1]
  /\ d_status' = StatusOf(locals.err)
  /\ pc' = "done"
  /\ UNCHANGED <<others, param, pluginVals, parasite, layers, logLines, requests>>

Next ==
  \/ RunStart
  \/ CreateDialog
  \/ Validate
  \/ NewClient
  \/ ModeSwitch
  \/ GenerateVision
  \/ CreateLayer
  \/ WritePixels
  \/ RunReturn

Spec == Init /\ [][Next]_vars

\* ------------------------------------------------------------------ claims
\* the invocation has ended
Done == pc = "done"

\* the stages before the layer is created at which runPluginLogic can fail
EarlyStages == {"validation", "client", "capture", "generate", "decode"}

\* the layers the current invocation added to the document
NewLayers == (Len(trace.layersBefore) + 1)..Len(layers)

\* C1: a run that fails at validation, client creation, layer capture or
\* encode, the generation call or the image decode never reaches
\* gimp_layer_new / gimp_image_insert_layer: the document's layers are those
\* it had when the run started.
C1_NoWriteOnEarlyFailure ==
  trace.failedAt \in EarlyStages =>
    /\ layers = trace.layersBefore
    /\ trace.inserted = 0

\* a second invocation, on a document an earlier invocation has added a
\* layer to, has failed at the generation call in ImageToImage mode
C1_Witness ==
  /\ Done
  /\ trace.failedAt = "generate"
  /\ pluginVals.mode = MODE_IMAGE_TO_IMAGE
  /\ trace.runs = 2
  /\ Len(layers) > 2
  /\ d_status = GIMP_PDB_EXECUTION_ERROR

\* C2: with an empty prompt or an empty API key runPluginLogic returns the
\* validation error at once: no client, no generation call, no layer read
\* and no layer created in that run, in both modes.
C2_ValidationShortCircuit ==
  (trace.response = GTK_RESPONSE_OK
     /\ (pluginVals.promptText = <<>> \/ pluginVals.apiKey = <<>>)) =>
    /\ trace.clients = 0
    /\ locals.client = Nil
    /\ requests = <<>>
    /\ trace.reads = 0
    /\ trace.inserted = 0
    /\ layers = trace.layersBefore
    /\ pc \in {"runPluginLogic", "return", "done"}
    /\ pc \in {"return", "done"} =>
         (trace.failedAt = "validation" /\ locals.err # Nil)

\* an ImageToImage run with a prompt and an empty key has ended
C2_Witness ==
  /\ Done
  /\ trace.response = GTK_RESPONSE_OK
  /\ pluginVals.promptText # <<>>
  /\ pluginVals.apiKey = <<>>
  /\ pluginVals.mode = MODE_IMAGE_TO_IMAGE
  /\ trace.failedAt = "validation"
  /\ d_status = GIMP_PDB_EXECUTION_ERROR

\* C3: createLayerFromBytes is atomic for the document: once the run has
\* ended every layer it added is fully populated with the decoded pixels,
\* and a failed pixel write or commit leaves no new layer and ends the run
\* with the execution-error status.
C3_AtomicLayerWrite ==
  Done =>
    /\ \A i \in NewLayers :
         /\ layers[i].merged
         /\ layers[i].pix = ConvertPixels(locals.img[1])
         /\ ByteLen(layers[i].pix, 4) = layers[i].width * 4 * layers[i].height
    /\ trace.writeOK = "failed" =>
         (layers = trace.layersBefore /\ d_status = GIMP_PDB_EXECUTION_ERROR)

\* C4: a dialog dismissed without OK ends the run as cancelled before
\* validation: runPluginLogic is not entered, no key is saved, no call is
\* made, no layer is read or created, no message is surfaced, and the
\* status is the cancel status.
C4_CancelShortCircuit ==
  trace.response = GTK_RESPONSE_CANCEL =>
    /\ Done
    /\ d_status = GIMP_PDB_CANCEL
    /\ ~trace.logic
    /\ trace.saves = 0
    /\ trace.clients = 0
    /\ requests = <<>>
    /\ trace.reads = 0
    /\ trace.inserted = 0
    /\ layers = trace.layersBefore
    /\ trace.messages = 0
    /\ locals.err = Nil

\* a second invocation is cancelled while pluginVals still holds the valid
\* prompt and key of the first
C4_Witness ==
  /\ trace.response = GTK_RESPONSE_CANCEL
  /\ trace.runs = 2
  /\ pluginVals.promptText # <<>>
  /\ pluginVals.apiKey # <<>>
  /\ d_status = GIMP_PDB_CANCEL

\* C5: every invocation writes the status exactly once; it is CANCEL iff
\* the dialog was not confirmed, EXECUTION_ERROR iff runPluginLogic returned
\* an error, SUCCESS otherwise; a message goes to the host iff the status
\* is EXECUTION_ERROR.
C5_StatusOnce ==
  /\ trace.statusWrites <= 1
  /\ (trace.statusWrites = 0) <=> (d_status = Unset)
  /\ trace.messages <= 1
  /\ Done =>
       /\ trace.statusWrites = 1
       /\ d_status \in {GIMP_PDB_SUCCESS, GIMP_PDB_CANCEL,
                        GIMP_PDB_EXECUTION_ERROR}
       /\ (d_status = GIMP_PDB_CANCEL) <=> (trace.response # GTK_RESPONSE_OK)
       /\ (d_status = GIMP_PDB_EXECUTION_ERROR) <=>
            (trace.logic /\ locals.err # Nil)
       /\ (d_status = GIMP_PDB_SUCCESS) <=> (trace.logic /\ locals.err = Nil)
       /\ (trace.messages = 1) <=> (d_status = GIMP_PDB_EXECUTION_ERROR)
  /\ (pc \notin {"idle", "done"}) => trace.statusWrites = 0

\* a run has ended with the execution-error status and one message
C5_Witness ==
  /\ Done
  /\ d_status = GIMP_PDB_EXECUTION_ERROR
  /\ trace.messages = 1
  /\ trace.statusWrites = 1
  /\ trace.failedAt = "client"

\* C6: the mode decides the request: a TextToImage run reads no layer and
\* its request has no image part; an ImageToImage run has read and
\* PNG-encoded the active layer before its call, and the request is that
\* encoded layer followed by the prompt; a failed read or encode ends the
\* run with no call made.
C6_RequestShape ==
  trace.response = GTK_RESPONSE_OK =>
    /\ pluginVals.mode = MODE_TEXT_TO_IMAGE =>
         /\ trace.reads = 0
         /\ locals.inputImageBytes = Nil
         /\ \A i \in DOMAIN requests :
              \A j \in DOMAIN requests[i].parts :
                requests[i].parts[j].type = "Text"
    /\ pluginVals.mode = MODE_IMAGE_TO_IMAGE =>
         \A i \in DOMAIN requests :
           /\ trace.reads = 1
           /\ requests[i].parts =
                << [type |-> "Blob", mime |-> "png",
                    data |-> getLayerAsPNG(pluginVals.drawableID, TRUE).bytes[1]],
                   [type |-> "Text", text |-> pluginVals.promptText] >>
    /\ trace.failedAt = "capture" => requests = <<>>

\* an ImageToImage run on the 3-byte layer has ended in success after one
\* call that carried the layer as an opaque truecolour PNG
C6_Witness ==
  /\ Done
  /\ pluginVals.mode = MODE_IMAGE_TO_IMAGE
  /\ pluginVals.drawableID = 2
  /\ Len(requests) = 1
  /\ requests[1].parts[1].data.cb = "TC8"
  /\ requests[1].parts[1].data.data = << <<1, <<10, 20, 30>> >> >>
  /\ d_status = GIMP_PDB_SUCCESS

\* the response's first part is an image
HasImage(resp) ==
  /\ Len(resp.Candidates) > 0
  /\ Len(resp.Candidates[1].Parts) > 0
  /\ resp.Candidates[1].Parts[1].type = "Blob"

\* the response has no candidate or its first candidate no part
EmptyResult(resp) ==
  \/ Len(resp.Candidates) = 0
  \/ Len(resp.Candidates[1].Parts) = 0

\* C7: on a successful run the pixels of the new layer are the decoded
\* image the service returned for the request, not a fixed substitute.
C7_ResponseAuthoritative ==
  (Done /\ d_status = GIMP_PDB_SUCCESS /\ trace.writeOK = "ok"
     /\ HasImage(locals.resp[1])) =>
    \A i \in NewLayers :
      layers[i].pix =
        ConvertPixels(DecodedImage(locals.resp[1].Candidates[1].Parts[1].data))

\* C8: a generation call that returns no error but an empty result ends the
\* run as failed: no layer is created and the status is the
\* execution-error status.
C8_EmptyResultFails ==
  (Done /\ locals.resp # Nil /\ EmptyResult(locals.resp[1])) =>
    /\ d_status = GIMP_PDB_EXECUTION_ERROR
    /\ layers = trace.layersBefore

\* C9: an invocation issues at most one generation call; a failed call ends
\* the run with that failure and is not repeated.
C9_SingleCall ==
  /\ Len(requests) <= 1
  /\ trace.failedAt = "generate" =>
       /\ Len(requests) = 1
       /\ pc \in {"return", "done"}
       /\ locals.err # Nil
       /\ Done => d_status = GIMP_PDB_EXECUTION_ERROR

\* an ImageToImage run has ended after its one call failed
C9_Witness ==
  /\ Done
  /\ pluginVals.mode = MODE_IMAGE_TO_IMAGE
  /\ trace.failedAt = "generate"
  /\ Len(requests) = 1
  /\ trace.messages = 1

\* C10: the API key appears in no log line and in no message passed to
\* gimp_message, also when the client or the call fails with an error whose
\* text contains the key.
C10_KeyNeverSurfaced ==
  \A k \in Keys \ {<<>>} :
    /\ \A i \in DOMAIN messages : ~Contains(messages[i], k)
    /\ \A i \in DOMAIN logLines : ~Contains(logLines[i], k)

\* ------------------------------------------------- getLayerName on its own
\* the longest prompt, in words, that is tried
MaxWords == 6

\* the words, the separators between them and the padding around them
\* from which prompts are built
NameWords == {<<"a">>, <<"b", "c">>}
Separators == {<<" ">>, <<" ", " ">>, <<"\t">>}
Paddings == {<<>>, <<" ">>}

\* the prompt: lead, the words with sep between them, trail
RECURSIVE Spread(_, _)
Spread(words, sep) ==
  IF words = <<>> THEN <<>>
  ELSE IF Len(words) = 1 THEN words[1]
  ELSE words[1] \o sep \o Spread(Tail(words), sep)

NameCases ==
  { [fn |-> "getLayerName", words |-> w, sep |-> sep, lead |-> lead,
     trail |-> trail, prompt |-> lead \o Spread(w, sep) \o trail,
     out |-> <<>>, done |-> FALSE] :
      w \in UNION {[1..k -> NameWords] : k \in 0..MaxWords},
      sep \in Separators, lead \in Paddings, trail \in Paddings }

NameInit ==
  /\ unit \in NameCases
  /\ PipelineIdle(RGBDocument)
  /\ ServerIdle

\* createLayerFromBytes, line 394: the call of getLayerName
GetLayerNameCall ==
  /\ unit.fn = "getLayerName"
  /\ ~unit.done
  /\ unit' = [unit EXCEPT !.out = getLayerName(unit.prompt), !.done = TRUE]
  /\ UNCHANGED <<pipeline, dashboard>>

NameNext == GetLayerNameCall

NameSpec == NameInit /\ [][NameNext]_vars

\* the first k of words, one space between neighbours
RECURSIVE FirstWords(_, _)
FirstWords(words, k) ==
  IF k = 0 THEN <<>>
  ELSE IF k = 1 THEN words[1]
  ELSE FirstWords(words, k - 1) \o <<" ">> \o words[k]

\* C11: getLayerName(prompt) is "Gemini Gen: " followed by the first
\* min(5, n) whitespace-delimited words of the prompt joined by single
\* spaces and by "...", n the prompt's word count; no sixth or later word
\* is in it, whatever the whitespace around and between the words.
C11_LayerNameTemplate ==
  (unit.fn = "getLayerName" /\ unit.done) =>
    LET n == Len(unit.words)
        k == IF n < 5 THEN n ELSE 5
    IN unit.out = <<"Gemini Gen: ">> \o FirstWords(unit.words, k) \o <<"...">>

\* a padded prompt of six words separated by two spaces has been named
C11_Witness ==
  /\ unit.fn = "getLayerName"
  /\ unit.done
  /\ Len(unit.words) = 6
  /\ unit.sep = <<" ", " ">>
  /\ unit.lead = <<" ">>
  /\ unit.words[6] = <<"b", "c">>

\* ------------------------------------------ the pixel exchange on its own
\* a host layer with the given geometry and pixels
HostLayer(width, height, bpp, pix) ==
  [id |-> 1, name |-> Lit("Layer"), width |-> width, height |-> height,
   bpp |-> bpp, merged |-> TRUE, pix |-> pix]

\* 4-byte layers of one pixel, opaque, transparent and in between
ColourSamples == {0, 100, 200, 255}
AlphaSamples == {0, 128, 255}
HostLayers4 ==
  { HostLayer(1, 1, 4, << <<1, <<r, g, b, a>> >> >>) :
      r \in ColourSamples, g \in ColourSamples, b \in ColourSamples,
      a \in AlphaSamples }

\* 3-byte layers of up to 2x2 pixels whose bytes all differ
Shapes == {<<1, 1>>, <<2, 1>>, <<1, 2>>, <<2, 2>>}
ByteBases == {0, 100, 231}
HostLayers3 ==
  { HostLayer(sh[1], sh[2], 3,
              [p \in 1..(sh[1] * sh[2]) |->
                 <<1, <<base + 3 * p - 2, base + 3 * p - 1, base + 3 * p>> >>]) :
      sh \in Shapes, base \in ByteBases }

\* PNGs a service can return: one straight-alpha pixel
ServicePNGs ==
  { PNGEncode([kind |-> "NRGBA", width |-> 1, height |-> 1,
               pix |-> << <<1, <<r, g, 0, a>> >> >>]) :
      r \in {0, 255}, g \in {0, 100}, a \in AlphaSamples }

CodecCases ==
  { [fn |-> "codec", stage |-> "host", src |-> Some(l), pixels |-> <<>>,
     Pix |-> <<>>, enc |-> Nil, out |-> <<>>, width |-> 0, height |-> 0] :
      l \in HostLayers4 \cup HostLayers3 }
  \cup
  { [fn |-> "codec", stage |-> "encoded", src |-> Nil, pixels |-> <<>>,
     Pix |-> <<>>, enc |-> Some(e), out |-> <<>>, width |-> 0, height |-> 0] :
      e \in ServicePNGs }

CodecInit ==
  /\ unit \in CodecCases
  /\ PipelineIdle(IF unit.src = Nil THEN RGBDocument ELSE unit.src)
  /\ ServerIdle

\* getLayerAsPNG on the layer under test, lines 446-502
CodecEncode ==
  /\ unit.fn = "codec"
  /\ unit.stage = "host"
  /\ LET l == Drawable(1)
         raw == RawBytes(LayerPixels(l))
     IN unit' = [unit EXCEPT
          !.stage = "encoded",
          !.pixels = raw,
          !.Pix = IF l.bpp = 3 THEN ExpandRGB(raw, l.width, l.height)
                  ELSE raw,
          !.enc = getLayerAsPNG(1, TRUE).bytes]
  /\ UNCHANGED <<pipeline, dashboard>>

\* createLayerFromBytes, lines 385-432: decode and convert
CodecDecode ==
  /\ unit.fn = "codec"
  /\ unit.stage = "encoded"
  /\ LET d == PNGDecode(unit.enc[1])
     IN unit' = [unit EXCEPT
          !.stage = "layer",
          !.out = ConvertPixels(d.img[1]),
          !.width = d.img[1].width,
          !.height = d.img[1].height]
  /\ UNCHANGED <<pipeline, dashboard>>

CodecNext ==
  \/ CodecEncode
  \/ CodecDecode

CodecSpec == CodecInit /\ [][CodecNext]_vars

\* the straight-alpha colour of pixel p of a PNG
StraightPixel(enc, p) ==
  IF enc.cb = "TCA8" THEN enc.data[p][2]
  ELSE <<enc.data[p][2][1], enc.data[p][2][2], enc.data[p][2][3], 255>>

\* C12: a host buffer of 3 or 4 bytes per pixel, encoded by getLayerAsPNG
\* and decoded and converted by createLayerFromBytes, comes back with the
\* same width and height and the same R, G, B, A bytes (alpha 255 for a
\* 3-byte buffer), for every pixel value.
C12_RoundTrip ==
  (unit.fn = "codec" /\ unit.stage = "layer" /\ unit.src # Nil) =>
    LET l == unit.src[1]
    IN /\ unit.width = l.width
       /\ unit.height = l.height
       /\ RawBytes(unit.out) =
            IF l.bpp = 4 THEN RawBytes(l.pix)
            ELSE ExpandRGB(RawBytes(l.pix), l.width, l.height)

\* C13: the 3-byte to 4-channel conversion of getLayerAsPNG copies, for
\* every pixel (x, y), the three source bytes to the same position of the
\* output and sets the fourth byte to 255; the output has 4 bytes for
\* every pixel.
C13_AlphaExpansion ==
  (unit.fn = "codec" /\ unit.stage # "host" /\ unit.src # Nil
     /\ unit.src[1].bpp = 3) =>
    LET w == unit.src[1].width
        h == unit.src[1].height
    IN /\ Len(unit.Pix) = w * h * 4
       /\ Len(unit.pixels) = w * h * 3
       /\ \A x \in 0..(w - 1), y \in 0..(h - 1) :
            /\ \A k \in 1..3 :
                 unit.Pix[(y * w + x) * 4 + k] = unit.pixels[(y * w + x) * 3 + k]
            /\ unit.Pix[(y * w + x) * 4 + 4] = 255
       /\ unit.enc[1].cb = "TC8"
       /\ \A p \in 1..(w * h) :
            unit.enc[1].data[p][2] =
              <<unit.pixels[3 * p - 2], unit.pixels[3 * p - 1],
                unit.pixels[3 * p]>>

\* a 2x2 3-byte layer has been converted and encoded
C13_Witness ==
  /\ unit.fn = "codec"
  /\ unit.stage = "encoded"
  /\ unit.src # Nil
  /\ unit.src[1].bpp = 3
  /\ unit.src[1].width = 2
  /\ unit.src[1].height = 2
  /\ Len(unit.Pix) = 16
  /\ unit.Pix[16] = 255
  /\ unit.Pix[13] = unit.pixels[10]

\* C17: the bytes createLayerFromBytes writes for a decoded pixel whose
\* straight colour is (r, g, b, a) are (r, g, b, a), also for
\* 0 < a < 255: the premultiplication of RGBA() is undone.
C17_StraightAlphaWritten ==
  (unit.fn = "codec" /\ unit.stage = "layer") =>
    \A p \in DOMAIN unit.out :
      unit.out[p][2] = StraightPixel(unit.enc[1], p)

\* ------------------------------------------------ claims on the pipeline
\* the bytes-per-pixel getLayerAsPNG can encode
SupportedBpp == {3, 4}

\* C14: for an active layer whose bytes-per-pixel is neither 3 nor 4
\* getLayerAsPNG returns the unsupported-format error and no encoded
\* image, and the ImageToImage run ends as failed with no generation call
\* and no new layer.
C14_UnsupportedBpp ==
  /\ \A id \in DOMAIN layers :
       layers[id].bpp \notin SupportedBpp =>
         /\ getLayerAsPNG(id, TRUE).bytes = Nil
         /\ getLayerAsPNG(id, TRUE).err =
              <<"unsupported bytes-per-pixel: ", ToString(layers[id].bpp)>>
  /\ (trace.response = GTK_RESPONSE_OK
        /\ pluginVals.mode = MODE_IMAGE_TO_IMAGE
        /\ layers[pluginVals.drawableID].bpp \notin SupportedBpp) =>
       /\ requests = <<>>
       /\ locals.inputImageBytes = Nil
       /\ trace.inserted = 0
       /\ layers = trace.layersBefore
       /\ pc \in {"runPluginLogic", "NewClient", "switch", "return", "done"}
       /\ trace.reads = 1 =>
            (trace.failedAt = "capture" /\ locals.err # Nil)
       /\ Done => d_status = GIMP_PDB_EXECUTION_ERROR

\* an ImageToImage run on the 1-byte layer has ended with the
\* unsupported-format message
C14_Witness ==
  /\ Done
  /\ pluginVals.mode = MODE_IMAGE_TO_IMAGE
  /\ layers[pluginVals.drawableID].bpp = 1
  /\ trace.failedAt = "capture"
  /\ trace.reads = 1
  /\ d_status = GIMP_PDB_EXECUTION_ERROR
  /\ messages # <<>>
  /\ Contains(messages[Len(messages)],
              <<"unsupported bytes-per-pixel: ", "1">>)
\* C16: on success the run has added one layer; it has the width and the
\* height of the image createLayerFromBytes decoded and 4 bytes per pixel,
\* and the buffer written to it has width*4*height bytes.
C16_LayerGeometry ==
  (Done /\ d_status = GIMP_PDB_SUCCESS) =>
     /\ NewLayers = {Len(layers)}
     /\ locals.newLayerID = Len(layers)
     /\ LET l == layers[Len(layers)]
            img == locals.img[1]
            pixels == ConvertPixels(img)
        IN /\ l.width = img.width
           /\ l.height = img.height
           /\ l.bpp = 4
           /\ ByteLen(pixels, 4) = l.width * 4 * l.height
           /\ trace.writeOK = "ok" =>
                 /\ l.pix = pixels
                 /\ ByteLen(l.pix, l.bpp) = l.width * l.bpp * l.height

\* a text-to-image run with the one-word prompt "cat" to which the service
\* returned the 512x512 opaque image has ended in Success with one new
\* 512x512 layer of 4 bytes per pixel
C16_Witness ==
  /\ Done
  /\ d_status = GIMP_PDB_SUCCESS
  /\ pluginVals.mode = MODE_TEXT_TO_IMAGE
  /\ pluginVals.promptText = <<"c", "a", "t">>
  /\ locals.resp # Nil
  /\ HasImage(locals.resp[1])
  /\ locals.resp[1].Candidates[1].Parts[1].data = ServiceImage512
  /\ NewLayers = {Len(layers)}
  /\ layers[Len(layers)].width = 512
  /\ layers[Len(layers)].height = 512
  /\ layers[Len(layers)].bpp = 4
  /\ ByteLen(layers[Len(layers)].pix, 4) = 512 * 4 * 512

\* runPluginLogic has been entered in the current invocation
InLogic ==
  \/ pc \in {"runPluginLogic", "NewClient", "switch", "GenerateVision",
              "createLayerFromBytes", "writePixels", "return"}
  \/ (Done /\ trace.response = GTK_RESPONSE_OK)

\* C19: in every invocation, whatever the earlier ones did, the prompt, the
\* key and the mode that runPluginLogic and createLayerFromBytes read are
\* those the dialog of this invocation returned, and the image and drawable
\* IDs are those of this invocation's parameters; the saved key, the client,
\* the requests, the captured layer and the new layer's name are made
\* from them.
C19_NoStaleValues ==
  InLogic =>
    /\ trace.entered # Nil
    /\ LET entered == trace.entered[1]
       IN /\ pluginVals.apiKey = entered.apiKey
          /\ pluginVals.promptText = entered.promptText
          /\ pluginVals.mode = entered.mode
          /\ pluginVals.imageID = param.d_image
          /\ pluginVals.drawableID = param.d_drawable
          /\ trace.saves = 1 => parasite = Some(entered.apiKey)
          /\ locals.client # Nil => locals.client[1].apiKey = entered.apiKey
          /\ \A i \in DOMAIN requests :
               requests[i] =
                 IF entered.mode = MODE_TEXT_TO_IMAGE
                 THEN TextRequest(entered.promptText)
                 ELSE VisionRequest(
                        getLayerAsPNG(param.d_drawable, TRUE).bytes[1],
                        entered.promptText)
          /\ \A i \in NewLayers :
               layers[i].name = getLayerName(entered.promptText)

\* a second invocation has made its request and its layer from a key, a
\* prompt and a drawable other than those the first one left in pluginVals
C19_Witness ==
  /\ Done
  /\ trace.runs = 2
  /\ d_status = GIMP_PDB_SUCCESS
  /\ pluginVals.mode = MODE_IMAGE_TO_IMAGE
  /\ trace.prev[1].key # <<>>
  /\ trace.prev[1].key # trace.entered[1].apiKey
  /\ param.d_drawable = 1
  /\ Len(trace.layersBefore) = Len(RGBDocument)
  /\ requests # <<>>

\* C20: saveAPIKey is called once in a run that passes validation and not
\* at all in a run that is cancelled or fails validation; it has been
\* called, with the key of this run, whenever a client has been asked for
\* or a request made; and the dialog of the invocation after one whose
\* generation call failed is prefilled with that invocation's key.
C20_KeySavedOnce ==
  /\ trace.saves <= 1
  /\ (trace.response = GTK_RESPONSE_CANCEL \/ trace.failedAt = "validation")
       => trace.saves = 0
  /\ (InLogic /\ pc # "runPluginLogic" /\ trace.failedAt # "validation")
       => /\ trace.saves = 1
          /\ parasite = Some(trace.entered[1].apiKey)
  /\ (trace.clients > 0 \/ locals.client # Nil \/ requests # <<>>)
       => trace.saves = 1
  /\ (trace.prev # Nil /\ trace.response # "")
       => (trace.prev[1].failedAt = "generate"
             => trace.prefill = trace.prev[1].key)

\* the dialog of a second invocation has been prefilled with the key of a
\* first one whose generation call failed
C20_Witness ==
  /\ trace.runs = 2
  /\ trace.response # ""
  /\ trace.prev # Nil
  /\ trace.prev[1].failedAt = "generate"
  /\ trace.prev[1].saves = 1
  /\ trace.prev[1].key # <<>>
  /\ trace.prefill = trace.prev[1].key

\* ------------------------------------------------- one invocation, to its end
\* the number of invocations followed to their end
MaxLiveRuns == 1

\* the host calls run (line 175)
LiveRunStart ==
  /\ trace.runs < MaxLiveRuns
  /\ RunStart

LiveNext ==
  \/ LiveRunStart
  \/ CreateDialog
  \/ Validate
  \/ NewClient
  \/ ModeSwitch
  \/ GenerateVision
  \/ CreateLayer
  \/ WritePixels
  \/ RunReturn

\* every operation the plugin calls returns: the dialog is answered, the
\* host procedures and the service call come back (with a result or an error)
LiveSpec ==
  /\ Init
  /\ [][LiveNext]_vars
  /\ WF_vars(CreateDialog)
  /\ WF_vars(Validate)
  /\ WF_vars(NewClient)
  /\ WF_vars(ModeSwitch)
  /\ WF_vars(GenerateVision)
  /\ WF_vars(CreateLayer)
  /\ WF_vars(WritePixels)
  /\ WF_vars(RunReturn)

\* C15: an invocation that has started reaches Done, in either mode; at
\* Done the status has been set to one of Success, Cancel and
\* ExecutionError by exactly one write; and Success is reported only
\* after a layer has been created
C15_RunTerminates ==
  /\ (pc = "createDialog") ~> Done
  /\ \A m \in Modes :
       (pc = "switch" /\ pluginVals.mode = m) ~> Done
  /\ [](Done =>
         /\ d_status \in {GIMP_PDB_SUCCESS, GIMP_PDB_CANCEL,
                           GIMP_PDB_EXECUTION_ERROR}
         /\ trace.statusWrites = 1
         /\ (d_status = GIMP_PDB_SUCCESS =>
               /\ trace.inserted = 1
               /\ Len(layers) = Len(trace.layersBefore) + 1))

C15_Witness ==
  /\ Done
  /\ pluginVals.mode = MODE_IMAGE_TO_IMAGE
  /\ d_status = GIMP_PDB_SUCCESS
  /\ trace.inserted = 1
  /\ trace.logic

\* ------------------------------------------------ dashboard server, main.go
\* the number of rotations followed
MaxTicks == 60

\* mutant: the rotation moves idx without clearing the bucket it moves to
Rotate_NoReset(s) ==
  [s EXCEPT !.idx = (s.idx + 1) % Window]

\* rotateLoop's critical section, lines 50-51
Rotate(s) ==
  [s EXCEPT !.idx = (s.idx + 1) % Window,
            !.buckets[(s.idx + 1) % Window] = 0]

\* the loop of requestsPerMinute, lines 66-69, over buckets[i..]
RECURSIVE SumFrom(_, _)
SumFrom(buckets, i) ==
  IF i >= Window THEN 0 ELSE buckets[i] + SumFrom(buckets, i + 1)

\* requestsPerMinute's result with the lock held
requestsPerMinute(s) == SumFrom(s.buckets, 0)

\* rotateLoop, lines 48-49: a tick is received and mu is acquired
RotateLock ==
  /\ rotator = "Lock"
  /\ clock < MaxTicks
  /\ server.mu = ""
  /\ server' = [server EXCEPT !.mu = "rotateLoop"]
  /\ rotator' = "rotate"
  /\ UNCHANGED <<pipeline, unit, handler, clock>>

\* rotateLoop, lines 50-52: the rotation and Unlock
RotateTick ==
  /\ rotator = "rotate"
  /\ server' = [Rotate(server) EXCEPT !.mu = ""]
  /\ clock' = clock + 1
  /\ rotator' = "Lock"
  /\ UNCHANGED <<pipeline, unit, handler>>

\* recordRequest, line 57: atomic.AddUint64(&s.reqTotal, 1)
RecordAdd(h) ==
  /\ handler[h].pc = "recordRequest"
  /\ server' = [server EXCEPT !.reqTotal = @ + 1]
  /\ handler' = [handler EXCEPT ![h].pc = "Lock"]
  /\ UNCHANGED <<pipeline, unit, rotator, clock>>

\* recordRequest, line 58: s.mu.Lock()
RecordLock(h) ==
  /\ handler[h].pc = "Lock"
  /\ server.mu = ""
  /\ server' = [server EXCEPT !.mu = h]
  /\ handler' = [handler EXCEPT ![h].pc = "inc"]
  /\ UNCHANGED <<pipeline, unit, rotator, clock>>

\* recordRequest, lines 59-60: the increment and Unlock; healthHandler
\* then only writes its response (lines 226-231)
RecordInc(h) ==
  /\ handler[h].pc = "inc"
  /\ server' = [server EXCEPT !.buckets[server.idx] = @ + 1, !.mu = ""]
  /\ handler' = [handler EXCEPT
       ![h].at = clock,
       ![h].pc = IF h = "metricsHandler" THEN "LoadUint64" ELSE "done"]
  /\ UNCHANGED <<pipeline, unit, rotator, clock>>

\* metricsHandler, line 239: atomic.LoadUint64(&s.reqTotal)
MetricsLoad(h) ==
  /\ handler[h].pc = "LoadUint64"
  /\ handler' = [handler EXCEPT ![h].total = server.reqTotal,
                                ![h].pc = "requestsPerMinute"]
  /\ UNCHANGED <<pipeline, unit, server, rotator, clock>>

\* requestsPerMinute, line 64: s.mu.Lock()
RpmLock(h) ==
  /\ handler[h].pc = "requestsPerMinute"
  /\ server.mu = ""
  /\ server' = [server EXCEPT !.mu = h]
  /\ handler' = [handler EXCEPT ![h].pc = "sum"]
  /\ UNCHANGED <<pipeline, unit, rotator, clock>>

\* requestsPerMinute, lines 65-70: the sum, the deferred Unlock, and the
\* line of metricsHandler that prints the result (240)
RpmSum(h) ==
  /\ handler[h].pc = "sum"
  /\ handler' = [handler EXCEPT ![h].rpm = requestsPerMinute(server),
                                ![h].pc = "done"]
  /\ server' = [server EXCEPT !.mu = ""]
  /\ UNCHANGED <<pipeline, unit, rotator, clock>>

ServerInit ==
  /\ unit = NoUnit
  /\ PipelineIdle(RGBDocument)
  /\ ServerIdle

ServerNext ==
  \/ RotateLock
  \/ RotateTick
  \/ \E h \in Handlers : RecordAdd(h)
  \/ \E h \in Handlers : RecordLock(h)
  \/ \E h \in Handlers : RecordInc(h)
  \/ \E h \in Handlers : MetricsLoad(h)
  \/ \E h \in Handlers : RpmLock(h)
  \/ \E h \in Handlers : RpmSum(h)

ServerSpec == ServerInit /\ [][ServerNext]_vars

\* the requests whose bucket increment came after the 60th most recent
\* rotation: at most Window - 1 rotations have followed the increment
InWindow ==
  {h \in Handlers : handler[h].at >= 0 /\ clock - handler[h].at <= Window - 1}

\* C18: whatever the interleaving of the recordRequest calls and the
\* rotations, requestsPerMinute returns the number of requests whose
\* bucket increment came after the 60th most recent rotation: each of them
\* once, and none that is older.
C18_SlidingWindow ==
  [][\A h \in Handlers :
       (handler[h].pc = "sum" /\ handler'[h].pc = "done")
         => handler'[h].rpm = Cardinality(InWindow)]_vars

\* requestsPerMinute has just returned 1 after two increments: the one of
\* /metrics is in the window, the one of /health is Window or more
\* rotations old
C18_Witness ==
  /\ handler["metricsHandler"].pc = "done"
  /\ handler["metricsHandler"].rpm = 1
  /\ handler["metricsHandler"].at >= 0
  /\ clock - handler["metricsHandler"].at <= Window - 1
  /\ handler["healthHandler"].at >= 0
  /\ clock - handler["healthHandler"].at >= Window

\* C21: in the response of /metrics, whatever requests and rotations are
\* interleaved with its handler, the requests_per_min value printed is at
\* most the requests_total value printed.
C21_RpmAtMostTotal ==
  handler["metricsHandler"].pc = "done" =>
    handler["metricsHandler"].rpm <= handler["metricsHandler"].total

====
